---- MODULE Spec2Model ----
(***************************************************************************)
(* Model of the GNS3 client library src/GNS3/gns3.py: the Project object,  *)
(* its callback listener (RequestHandler), the declaration and link        *)
(* methods, and the dependency-ordered start-up of Project.start_nodes.    *)
(***************************************************************************)
EXTENDS Integers, Sequences, FiniteSets, TLC

\* ------------------------------------------------------------------ bounds
MaxNodes == 3      \* nodes of the project (listed at start-up, or created by the script)
MaxDeps  == 2      \* depends_on calls made before start_nodes
MaxList  == 1      \* length of the node_list passed to start_nodes
MaxStarted == 1    \* nodes GNS3 already lists as 'started' when the Project is built
MaxPorts == 2      \* ports of a qemu node or a switch
MaxLinks == 2      \* links on the server
MaxNames == 2      \* distinct names a script declares

\* Host names the nodes of the project carry, and the ids the server hands
\* out, by order of allocation.
HostNames == <<"nat1", "router1", "server1", "client1", "client2", "client3">>

NodeIds == <<"id1", "id2", "id3", "id4", "id5", "id6">>

Range(s) == {s[i] : i \in DOMAIN s}

SeqsUpTo(S, n) == UNION {[1..k -> S] : k \in 0..n}

\* ---------------------------------------------------- the GNS3 server's data
\* The ports the server reports for a node, as (adapter_number, port_number):
\* a qemu node has one port 0 on each adapter, a switch has its ports on
\* adapter 0, a cloud has the single mapped interface.
PortsOf(node_type) ==
    IF node_type = "qemu"
    THEN [i \in 1..MaxPorts |-> [adapter_number |-> i - 1, port_number |-> 0]]
    ELSE IF node_type = "ethernet_switch"
    THEN [i \in 1..MaxPorts |-> [adapter_number |-> 0, port_number |-> i - 1]]
    ELSE <<[adapter_number |-> 0, port_number |-> 0]>>

\* A node dictionary as the server returns it.
NodeDict(id, name, node_type, status) ==
    [node_id |-> id, name |-> name, node_type |-> node_type,
     status |-> status, ports |-> PortsOf(node_type)]

VARIABLES
    \* GNS3 server
    nodes,                  \* GET /nodes: sequence of node dictionaries
    links,                  \* GET /links: sequence of link dictionaries
    allocated,              \* number of node ids the server has handed out
    \* Project object
    cached_nodes,           \* self.cached_nodes (<<>> for None or [])
    nodes_waiting_to_start, \* self.nodes_waiting_to_start
    node_dependencies,      \* Project.node_dependencies: node_id -> list of node dicts
    wait_all,               \* self.wait_all: "unset", "false" or "true"
    telnet_procs,           \* keys of self.telnet_procs
    \* listener (self.httpd)
    instances_reported,     \* hostname -> client address
    instance_content,       \* hostname -> request content
    serving,                \* a serve_forever thread is running
    notifies,               \* number of instance_report_cv.notify() calls
    \* main thread inside start_nodes
    pc,                     \* "idle", "scan", "wait", "woken", "starting", "shutdown",
                            \* "done" or "raised" (an exception left start_nodes)
    wait_for_everything,    \* effective value after lines 499-506
    quiet,
    node_names_to_start,
    idx,                    \* position of the for loop of line 535
    existing_nodes,         \* the listing of line 513
    running_nodeids,
    waiting_for_nodeids_to_start,
    waitlist,
    \* record of the current start_nodes call and of the requests sent
    call,                   \* arguments of the call
    start_requests,         \* node ids POSTed to /nodes/{id}/start during the call
    waited,                 \* node ids that have been on the wait list during the call
    pre_reported,           \* hostnames reported before the call
    created,                \* ids of the nodes created through this Project object
    last_op,                \* the last declaration / link operation and what it sent
    \* record of the notifications the listener has handled
    logging,                \* the notifications are being recorded
    reports,                \* the notifications handled, oldest first
    \* Server(host, port)
    credential_files,       \* the configurations of the files found, in search order
    server_host,            \* the host argument
    server_port,            \* the port argument
    server_obj,             \* the Server object: status "none", "built" or "raised"
    \* upload-image.py
    args,                   \* the parsed command line
    images,                 \* the file names of the images the server holds
    local_files,            \* the paths open() can read
    upload_pc,              \* "off", "server", "ls", "check", "upload" or "exited"
    exit_status,            \* the exit status of the process (-1 while it runs)
    images_listed,          \* what images() returned at line 43 (history)
    upload_requests,        \* the names POSTed to /compute/qemu/images/ (history)
    \* the stand-alone scripts with a listener of their own
    boot_script,            \* "none", "triangle-pods", "ping-test", "ubuntu" or "ubuntu-test"
    main_pc,                \* position of the main thread
    routers_reported,       \* routers_reported (instances_reported in the ubuntu scripts)
    httpd_serving,          \* the serve_forever thread is running
    has_waited,             \* the main thread has blocked in wait() (history)
    projects,               \* the projects of the GNS3 server
    my_project,             \* my_project['project_id'], or "None"
    atexit_handlers,        \* the project ids remove_project is registered for
    hook_ran,               \* my_except_hook has run for an uncaught exception
    delete_requests,        \* the DELETE requests sent and their status (history)
    \* UCS/start-blade.py
    ucs,                    \* the managed objects of the UCS manager: dn -> properties
    ucs_before,             \* the managed objects when the script started (history)
    argv,                   \* sys.argv
    blade_pc,               \* "off", "login", "dn", "query", "test", "power", "assign",
                            \* "set_mo", "commit", "done" or "raised"
    dn1,
    mo1,                    \* the service profile queried, NoMo for None
    mo2,                    \* the power object queried, NoMo for None
    uncommitted,            \* the objects handed to set_mo and not yet committed
    queries,                \* the dns queried, in order (history)
    set_mos,                \* the objects handed to set_mo, in order (history)
    commits                 \* number of handle.commit() calls (history)

server_vars   == <<nodes, links, allocated>>
project_vars  == <<cached_nodes, nodes_waiting_to_start, node_dependencies, wait_all, telnet_procs>>
listener_vars == <<instances_reported, instance_content, notifies>>
thread_vars   == <<pc, wait_for_everything, quiet, node_names_to_start, idx, existing_nodes,
                   running_nodeids, waiting_for_nodeids_to_start, waitlist>>
call_vars     == <<call, start_requests, waited, pre_reported>>

listen_log    == <<logging, reports>>
cred_vars     == <<credential_files, server_host, server_port, server_obj>>
upload_vars   == <<args, images, local_files, upload_pc, exit_status, images_listed,
                   upload_requests>>
boot_vars     == <<boot_script, main_pc, routers_reported, httpd_serving, has_waited>>
ping_vars     == <<projects, my_project, atexit_handlers, hook_ran, delete_requests>>
run_vars      == <<boot_vars, ping_vars>>
blade_vars    == <<ucs, ucs_before, argv, blade_pc, dn1, mo1, mo2, uncommitted, queries,
                   set_mos, commits>>
script_vars   == <<cred_vars, upload_vars, run_vars, blade_vars>>
library_vars  == <<server_vars, project_vars, listener_vars, serving, thread_vars, call_vars,
                   created, last_op, listen_log>>
other_vars    == <<listen_log, script_vars>>

vars == <<server_vars, project_vars, listener_vars, serving, thread_vars, call_vars, created,
          last_op, other_vars>>

NoCall == [node_list |-> <<>>, wait_for_everything |-> FALSE, quiet |-> FALSE, active |-> FALSE]
NoOp   == [op |-> "none"]

\* Project.__init__ (and the class attribute node_dependencies) on a server
\* project holding the given nodes and links.
ProjectInit(ns, ls) ==
    /\ nodes = ns
    /\ links = ls
    /\ allocated = Len(ns)
    /\ cached_nodes = <<>>
    /\ nodes_waiting_to_start = <<>>
    /\ node_dependencies = <<>>
    /\ telnet_procs = {}
    /\ instances_reported = <<>>
    /\ instance_content = <<>>
    /\ serving = FALSE
    /\ notifies = 0
    /\ pc = "idle"
    /\ wait_for_everything = FALSE
    /\ quiet = FALSE
    /\ node_names_to_start = <<>>
    /\ idx = 1
    /\ existing_nodes = <<>>
    /\ running_nodeids = {}
    /\ waiting_for_nodeids_to_start = {}
    /\ waitlist = {}
    /\ call = NoCall
    /\ start_requests = {}
    /\ waited = {}
    /\ pre_reported = {}
    /\ created = {}
    /\ last_op = NoOp

\* no Server object is being built
NoServerCall ==
    /\ credential_files = <<>>
    /\ server_host = "None"
    /\ server_port = "None"
    /\ server_obj = [status |-> "none", url |-> <<>>,
                     auth |-> [username |-> "None", password |-> "None"]]

NoArgs == [overwrite |-> FALSE, ls |-> FALSE, filename |-> [none |-> TRUE, parts |-> <<>>]]

NotListed == [listed |-> FALSE, names |-> {}]

\* upload-image.py is not running
NoUpload ==
    /\ args = NoArgs
    /\ images = {}
    /\ local_files = {}
    /\ upload_pc = "off"
    /\ exit_status = -1
    /\ images_listed = NotListed
    /\ upload_requests = <<>>

\* no script with a listener of its own is running
NoRun ==
    /\ boot_script = "none"
    /\ main_pc = "off"
    /\ routers_reported = {}
    /\ httpd_serving = FALSE
    /\ has_waited = FALSE
    /\ projects = {}
    /\ my_project = "None"
    /\ atexit_handlers = <<>>
    /\ hook_ran = FALSE
    /\ delete_requests = {}

NoMo == [dn |-> "None", oper_state |-> "None", state |-> "None"]

\* start-blade.py is not running
NoBlade ==
    /\ ucs = <<>>
    /\ ucs_before = <<>>
    /\ argv = <<>>
    /\ blade_pc = "off"
    /\ dn1 = "None"
    /\ mo1 = NoMo
    /\ mo2 = NoMo
    /\ uncommitted = <<>>
    /\ queries = <<>>
    /\ set_mos = <<>>
    /\ commits = 0

\* no stand-alone script is running
NoScript == NoUpload /\ NoRun /\ NoBlade

\* nothing outside the Project object takes part
LibraryOnly ==
    /\ logging = FALSE
    /\ reports = <<>>
    /\ NoServerCall
    /\ NoScript

\* ------------------------------------------------------------ pure helpers
\* dict.get(key, []) on a dictionary of lists
Get(d, key) == IF key \in DOMAIN d THEN d[key] ELSE <<>>

\* d[key] = value on a dictionary
Put(d, key, value) == [k \in DOMAIN d \cup {key} |-> IF k = key THEN value ELSE d[k]]

\* list.remove(x) after an 'x in list' test: drops the first element equal to x
RemoveFirst(s, x) ==
    IF \E i \in DOMAIN s : s[i] = x
    THEN LET i == CHOOSE j \in DOMAIN s : s[j] = x /\ \A k \in 1..(j-1) : s[k] # x
         IN SubSeq(s, 1, i-1) \o SubSeq(s, i+1, Len(s))
    ELSE s

\* {node['node_id']: node['name'] for node in existing_nodes}
names_by_node_id(ns) ==
    [id \in {ns[i].node_id : i \in DOMAIN ns} |->
        ns[CHOOSE i \in DOMAIN ns : ns[i].node_id = id
              /\ \A j \in DOMAIN ns : ns[j].node_id = id => j <= i].name]

\* {node['name']: node['node_id'] for node in existing_nodes}: the last node
\* of a name wins
node_ids_by_name(ns) ==
    [nm \in {ns[i].name : i \in DOMAIN ns} |->
        ns[CHOOSE i \in DOMAIN ns : ns[i].name = nm
              /\ \A j \in DOMAIN ns : ns[j].name = nm => j <= i].node_id]

\* {node['node_id']: node for node in existing_nodes}
nodes_by_node_id(ns) ==
    [id \in {ns[i].node_id : i \in DOMAIN ns} |->
        ns[CHOOSE i \in DOMAIN ns : ns[i].node_id = id
              /\ \A j \in DOMAIN ns : ns[j].node_id = id => j <= i]]

\* lines 518-521: the ids of all nodes some node depends on
all_dependent_nodes(deps) ==
    UNION {{deps[k][i].node_id : i \in DOMAIN deps[k]} : k \in DOMAIN deps}

\* line 526: the nodes GNS3 lists as 'started'
StartedAtListing(ns) == {ns[i].node_id : i \in {j \in DOMAIN ns : ns[j].status = "started"}}

\* lines 499-506: the value of wait_for_everything the rest of the function uses
EffectiveWait(arg, wa, q) ==
    IF arg THEN TRUE ELSE IF wa = "true" THEN TRUE ELSE ~q

\* lines 543-545: append the names of the dependencies not yet in the list
RECURSIVE AppendMissing(_, _)
AppendMissing(names, dependencies) ==
    IF dependencies = <<>> THEN names
    ELSE LET v == Head(dependencies)
         IN AppendMissing(IF v.name \in Range(names) THEN names ELSE Append(names, v.name),
                          Tail(dependencies))

\* variant: issubset written for issuperset
DependenciesRunning_issubset(running, dependencies) ==
    running \subseteq {dependencies[i].node_id : i \in DOMAIN dependencies}

\* running_nodeids.issuperset([v['node_id'] for v in dependencies])
DependenciesRunning(running, dependencies) ==
    \A i \in DOMAIN dependencies : dependencies[i].node_id \in running

\* lines 547-548: the node is started in the first pass
StartInFirstPass(node_id, dependencies, running, waiting) ==
    /\ node_id \notin running
    /\ node_id \notin waiting
    /\ DependenciesRunning(running, dependencies)

\* variant: once anything has reported, every listed node counts as running
RunningAfterReports_all(running, reported, ids) ==
    running \cup {ids[inst] : inst \in {h \in DOMAIN ids : DOMAIN reported # {}}}

\* lines 560-563: the nodes whose names have reported count as running
RunningAfterReports(running, reported, ids) ==
    running \cup {ids[inst] : inst \in DOMAIN reported \cap DOMAIN ids}

\* lines 572-575: nodes with dependencies that can now be started
CandidateNodes(deps, running, waiting) ==
    {key \in DOMAIN deps : /\ key \notin waiting
                           /\ key \notin running
                           /\ DependenciesRunning(running, deps[key])}

\* variant: the wait list is always cut down to the depended-on nodes
Waitlist_dependent_only(wfe, waiting, dependent) == waiting \cap dependent

\* lines 553-556 and 581-584
Waitlist(wfe, waiting, dependent) ==
    IF wfe THEN waiting ELSE waiting \cap dependent

\* the server marks the node started on POST /nodes/{id}/start
ServerStart(ns, nodeid) ==
    [i \in DOMAIN ns |-> IF ns[i].node_id = nodeid
                         THEN [ns[i] EXCEPT !.status = "started"] ELSE ns[i]]

NodeIdsOf(ns) == {ns[i].node_id : i \in DOMAIN ns}

DependencyCount == LET RECURSIVE Sum(_)
                       Sum(S) == IF S = {} THEN 0
                                 ELSE LET k == CHOOSE x \in S : TRUE
                                      IN Len(node_dependencies[k]) + Sum(S \ {k})
                   IN Sum(DOMAIN node_dependencies)

\* --------------------------------------------------------- Project methods
\* Project.depends_on(node1, node2)
depends_on(node1, node2) ==
    /\ pc = "idle"
    /\ DependencyCount < MaxDeps
    /\ node_dependencies' = Put(node_dependencies, node1.node_id,
                                Append(Get(node_dependencies, node1.node_id), node2))
    /\ UNCHANGED <<server_vars, cached_nodes, nodes_waiting_to_start, wait_all, telnet_procs,
                   listener_vars, serving, thread_vars, call_vars, created, last_op, other_vars>>

\* Project.delete(nodeid): nodeid is a node id or a node name
delete(nodeid) ==
    /\ pc = "idle"
    /\ \E i \in DOMAIN nodes : nodes[i].name = nodeid \/ nodes[i].node_id = nodeid
    /\ cached_nodes' = nodes
    /\ nodes' = SelectSeq(nodes, LAMBDA n : ~(n.name = nodeid \/ n.node_id = nodeid))
    /\ links' = SelectSeq(links, LAMBDA l :
                   \A e \in DOMAIN l.nodes : l.nodes[e].node_id \in NodeIdsOf(nodes'))
    /\ UNCHANGED <<allocated, nodes_waiting_to_start, node_dependencies, wait_all, telnet_procs,
                   listener_vars, serving, thread_vars, call_vars, created, last_op, other_vars>>

\* Project.start_nodeid(nodeid, print_console), lines 460-482, for a node the
\* server lists; StartNodeidRaises is the KeyError of line 463.
StartNodeidRaises(nodeid) == nodeid \notin NodeIdsOf(nodes)

start_nodeid(nodeid, print_console) ==
    /\ cached_nodes' = nodes
    /\ nodes' = ServerStart(nodes, nodeid)
    /\ start_requests' = start_requests \cup {nodeid}
    /\ nodes_waiting_to_start' = RemoveFirst(nodes_waiting_to_start, nodes_by_node_id(nodes)[nodeid])
    /\ telnet_procs' = IF print_console
                       THEN telnet_procs \cup {names_by_node_id(nodes)[nodeid]}
                       ELSE telnet_procs
    /\ UNCHANGED <<links, allocated>>

\* Project.start_nodes(*node_list, wait_for_everything, quiet), lines 499-528
start_nodes(node_list, wfe, q) ==
    /\ pc = "idle"
    /\ ~call.active
    /\ call' = [node_list |-> node_list, wait_for_everything |-> wfe, quiet |-> q, active |-> TRUE]
    /\ start_requests' = {}
    /\ waited' = {}
    /\ pre_reported' = DOMAIN instances_reported
    /\ IF ~wfe /\ wait_all = "unset"
       THEN /\ pc' = "raised"
            /\ UNCHANGED <<wait_for_everything, quiet, node_names_to_start, idx, existing_nodes,
                           running_nodeids, waiting_for_nodeids_to_start, waitlist,
                           serving, cached_nodes>>
       ELSE /\ wait_for_everything' = EffectiveWait(wfe, wait_all, q)
            /\ quiet' = q
            /\ node_names_to_start' =
                  IF node_list = <<>>
                  THEN [i \in DOMAIN nodes_waiting_to_start |-> nodes_waiting_to_start[i].name]
                  ELSE node_list
            /\ serving' = TRUE
            /\ existing_nodes' = nodes
            /\ cached_nodes' = nodes
            /\ running_nodeids' = StartedAtListing(nodes)
            /\ waiting_for_nodeids_to_start' = {}
            /\ waitlist' = {}
            /\ idx' = 1
            /\ pc' = "scan"
    /\ UNCHANGED <<server_vars, nodes_waiting_to_start, node_dependencies, wait_all, telnet_procs,
                   listener_vars, created, last_op, other_vars>>

\* one iteration of the for loop of lines 535-550
ScanStep ==
    /\ pc = "scan"
    /\ idx <= Len(node_names_to_start)
    /\ idx' = idx + 1
    /\ LET node_name == node_names_to_start[idx]
           ids == node_ids_by_name(existing_nodes)
       IN IF node_name \notin DOMAIN ids
          THEN UNCHANGED <<server_vars, cached_nodes, nodes_waiting_to_start, telnet_procs,
                           node_names_to_start, waiting_for_nodeids_to_start, start_requests, pc>>
          ELSE LET node_id == ids[node_name]
                   dependencies == Get(node_dependencies, node_id)
               IN /\ node_names_to_start' = AppendMissing(node_names_to_start, dependencies)
                  /\ IF StartInFirstPass(node_id, dependencies, running_nodeids,
                                         waiting_for_nodeids_to_start)
                     THEN IF StartNodeidRaises(node_id)
                          THEN /\ pc' = "raised"
                               /\ cached_nodes' = nodes
                               /\ UNCHANGED <<server_vars, nodes_waiting_to_start, telnet_procs,
                                              waiting_for_nodeids_to_start, start_requests>>
                          ELSE /\ start_nodeid(node_id, ~quiet)
                               /\ waiting_for_nodeids_to_start' =
                                     waiting_for_nodeids_to_start \cup {node_id}
                               /\ pc' = pc
                     ELSE UNCHANGED <<server_vars, cached_nodes, nodes_waiting_to_start,
                                      telnet_procs, waiting_for_nodeids_to_start,
                                      start_requests, pc>>
    /\ UNCHANGED <<node_dependencies, wait_all, listener_vars, serving, wait_for_everything,
                   quiet, existing_nodes, running_nodeids, waitlist, call, waited,
                   pre_reported, created, last_op, other_vars>>

\* lines 552-557: take the condition variable's lock, compute the wait list,
\* and either block in wait() (line 559) or fall through to line 586
WaitEnter ==
    /\ pc = "scan"
    /\ idx > Len(node_names_to_start)
    /\ waitlist' = Waitlist(wait_for_everything, waiting_for_nodeids_to_start,
                            all_dependent_nodes(node_dependencies))
    /\ waited' = waited \cup waitlist'
    /\ pc' = IF waitlist' = {} THEN "shutdown" ELSE "wait"
    /\ UNCHANGED <<server_vars, project_vars, listener_vars, serving, wait_for_everything,
                   quiet, node_names_to_start, idx, existing_nodes, running_nodeids,
                   waiting_for_nodeids_to_start, call, start_requests, pre_reported, created, last_op,
                   other_vars>>

\* lines 560-575, run with the lock held after wait() returns
WaitWake ==
    /\ pc = "woken"
    /\ running_nodeids' = RunningAfterReports(running_nodeids, instances_reported,
                                              node_ids_by_name(existing_nodes))
    /\ telnet_procs' = telnet_procs \ DOMAIN instances_reported
    /\ waiting_for_nodeids_to_start' = waiting_for_nodeids_to_start \ running_nodeids'
    /\ pc' = "starting"
    /\ UNCHANGED <<server_vars, cached_nodes, nodes_waiting_to_start, node_dependencies,
                   wait_all, listener_vars, serving, wait_for_everything, quiet,
                   node_names_to_start, idx, existing_nodes, waitlist, call_vars, created, last_op,
                   other_vars>>

\* lines 577-579: one iteration of the loop over candidate_nodes (the set is
\* recomputed from the same data, so a started node leaves it)
WaitStart ==
    /\ pc = "starting"
    /\ \E start_node \in CandidateNodes(node_dependencies, running_nodeids,
                                        waiting_for_nodeids_to_start) :
          IF StartNodeidRaises(start_node)
          THEN /\ pc' = "raised"
               /\ cached_nodes' = nodes
               /\ UNCHANGED <<server_vars, nodes_waiting_to_start, telnet_procs,
                              waiting_for_nodeids_to_start, start_requests>>
          ELSE /\ start_nodeid(start_node, ~quiet)
               /\ waiting_for_nodeids_to_start' = waiting_for_nodeids_to_start \cup {start_node}
               /\ pc' = pc
    /\ UNCHANGED <<node_dependencies, wait_all, listener_vars, serving, wait_for_everything,
                   quiet, node_names_to_start, idx, existing_nodes, running_nodeids, waitlist,
                   call, waited, pre_reported, created, last_op, other_vars>>

\* lines 581-584 and the loop test of line 557
WaitNext ==
    /\ pc = "starting"
    /\ CandidateNodes(node_dependencies, running_nodeids, waiting_for_nodeids_to_start) = {}
    /\ waitlist' = Waitlist(wait_for_everything, waiting_for_nodeids_to_start,
                            all_dependent_nodes(node_dependencies))
    /\ waited' = waited \cup waitlist'
    /\ pc' = IF waitlist' = {} THEN "shutdown" ELSE "wait"
    /\ UNCHANGED <<server_vars, project_vars, listener_vars, serving, wait_for_everything,
                   quiet, node_names_to_start, idx, existing_nodes, running_nodeids,
                   waiting_for_nodeids_to_start, call, start_requests, pre_reported, created, last_op,
                   other_vars>>

\* line 586: self.httpd.shutdown(), then start_nodes returns
Shutdown ==
    /\ pc = "shutdown"
    /\ serving' = FALSE
    /\ pc' = "done"
    /\ UNCHANGED <<server_vars, project_vars, listener_vars, wait_for_everything, quiet,
                   node_names_to_start, idx, existing_nodes, running_nodeids,
                   waiting_for_nodeids_to_start, waitlist, call_vars, created, last_op, other_vars>>

\* ------------------------------------------------- RequestHandler (listener)
\* lines 194-198 / 212-216: record a first report under the lock and notify
NotYetReported_always(reported, hostname) == TRUE

\* lines 195 / 213: if not hostname in self.server.instances_reported
NotYetReported(reported, hostname) == hostname \notin DOMAIN reported

Report(hostname, client_address, content) ==
    /\ serving
    /\ pc # "starting"          \* the main thread holds the lock while it runs the loop body
    /\ IF NotYetReported(instances_reported, hostname)
       THEN /\ instances_reported' = Put(instances_reported, hostname, client_address)
            /\ instance_content' = Put(instance_content, hostname, content)
            /\ notifies' = notifies + 1
            /\ pc' = IF pc = "wait" THEN "woken" ELSE pc
       ELSE UNCHANGED <<listener_vars, pc>>
    /\ UNCHANGED <<server_vars, project_vars, serving, wait_for_everything, quiet,
                   node_names_to_start, idx, existing_nodes, running_nodeids,
                   waiting_for_nodeids_to_start, waitlist, call_vars, created, last_op,
                   logging, script_vars>>
    /\ reports' = IF logging
                  THEN Append(reports, [hostname |-> hostname,
                                        client_address |-> client_address,
                                        content |-> content])
                  ELSE reports

\* RequestHandler.do_POST: the hostname is in the parsed query string
do_POST(client_address, content) ==
    /\ "hostname" \in DOMAIN content
    /\ Report(content["hostname"][1], client_address, content)

\* RequestHandler.do_PUT: the hostname is the last component of the path
do_PUT(client_address, path, content) ==
    Report(path[Len(path)], client_address, content)

\* --------------------------------------------- start-up of an existing project
StartHosts == {HostNames[i] : i \in 1..MaxNodes}

\* names a caller may pass in node_list: the project's nodes and one name
\* the server does not list
ListNames == {HostNames[i] : i \in 1..(MaxNodes + 1)}

\* the Project object is built on a server project that already holds
\* MaxNodes nodes, each stopped or started
InitStart ==
    /\ \E st \in [1..MaxNodes -> {"stopped", "started"}] :
          /\ Cardinality({i \in 1..MaxNodes : st[i] = "started"}) <= MaxStarted
          /\ ProjectInit([i \in 1..MaxNodes |-> NodeDict(NodeIds[i], HostNames[i], "qemu", st[i])],
                      <<>>)
    /\ wait_all \in {"unset", "false", "true"}
    /\ LibraryOnly

NextStart ==
    \/ \E n1 \in Range(nodes), n2 \in Range(nodes) : depends_on(n1, n2)
    \/ \E node_list \in SeqsUpTo(ListNames, MaxList), wfe \in BOOLEAN, q \in BOOLEAN :
          start_nodes(node_list, wfe, q)
    \/ ScanStep
    \/ WaitEnter
    \/ WaitWake
    \/ WaitStart
    \/ WaitNext
    \/ Shutdown
    \/ \E h \in StartHosts : do_POST("10.0.0.1", [hostname |-> <<h>>])
    \/ \E h \in StartHosts : do_PUT("10.0.0.1", <<"", h>>, [hostname |-> <<h>>])

SpecStart == InitStart /\ [][NextStart]_vars

\* ------------------------------------------------------- the callback listener
MaxReports == 3    \* notifications handled by the listener

ListenHosts == {HostNames[i] : i \in 1..2}

ListenAddresses == {"10.0.0.1", "10.0.0.2"}

\* bodies of the notifications: cloud-init posts a query string that holds the
\* hostname, a router puts a body and names itself in the URL
PostContents(h) == {[hostname |-> <<h>>, instance_id |-> <<i>>] : i \in {"i-1", "i-2"}}

PutContents == {[status |-> <<s>>] : s \in {"up", "ready"}}

\* a Project object on a project of two stopped nodes, with every notification
\* the listener handles recorded
InitListen ==
    /\ ProjectInit([i \in 1..2 |-> NodeDict(NodeIds[i], HostNames[i], "qemu", "stopped")], <<>>)
    /\ wait_all = "false"
    /\ logging = TRUE
    /\ reports = <<>>
    /\ NoServerCall
    /\ NoScript

NextListen ==
    \/ \E node_list \in SeqsUpTo(ListenHosts, 1), wfe \in BOOLEAN, q \in BOOLEAN :
          start_nodes(node_list, wfe, q)
    \/ ScanStep
    \/ WaitEnter
    \/ WaitWake
    \/ WaitNext
    \/ Shutdown
    \/ \E h \in ListenHosts, a \in ListenAddresses : \E c \in PostContents(h) :
          Len(reports) < MaxReports /\ do_POST(a, c)
    \/ \E h \in ListenHosts, a \in ListenAddresses, c \in PutContents :
          Len(reports) < MaxReports /\ do_PUT(a, <<"", h>>, c)

SpecListen == InitListen /\ [][NextListen]_vars

\* the first notification handled for a hostname
FirstReport(h) ==
    reports[CHOOSE i \in DOMAIN reports :
                /\ reports[i].hostname = h
                /\ \A j \in 1..(i - 1) : reports[j].hostname # h]

ReportedHosts == {reports[i].hostname : i \in DOMAIN reports}

\* C11: after every sequence of POST and PUT notifications instances_reported
\* and instance_content have the same keys, the hostnames notified; each
\* hostname maps to the client address and the content of its first
\* notification (a later one changes nothing); and notify() has been called
\* once per distinct hostname.
C11_ListenerState ==
    logging =>
        /\ DOMAIN instances_reported = DOMAIN instance_content
        /\ DOMAIN instances_reported = ReportedHosts
        /\ \A h \in ReportedHosts :
              /\ instances_reported[h] = FirstReport(h).client_address
              /\ instance_content[h] = FirstReport(h).content
        /\ notifies = Cardinality(ReportedHosts)

\* a hostname notified twice, from two addresses with two bodies, once by
\* POST and once by PUT, and a second hostname notified as well
C11_Witness ==
    /\ logging
    /\ Len(reports) = MaxReports
    /\ \E i \in DOMAIN reports, j \in DOMAIN reports :
          /\ i < j
          /\ reports[i].hostname = reports[j].hostname
          /\ reports[i].client_address # reports[j].client_address
          /\ "hostname" \in DOMAIN reports[i].content
          /\ "hostname" \notin DOMAIN reports[j].content
    /\ Cardinality(ReportedHosts) = 2

\* ------------------------------------------------------ Server(host, port)
MaxFiles == 2      \* credential files found by the search

NoneStr == "None"      \* Python's None where the value is otherwise a string

Absent == "absent"     \* an entry the configuration file does not hold

ServerHosts == {"gns3a", "gns3b"}

ServerPorts == {"3080", "3081"}

\* what configparser holds after config.read(propfilename): a file that cannot
\* be read or parsed leaves no [Server] section
Configs ==
    [section : {TRUE}, host : ServerHosts \cup {Absent}, port : ServerPorts \cup {Absent},
     user : {"admin", Absent}, password : {"pw1", "pw2"}]
    \cup {[section |-> FALSE, host |-> Absent, port |-> Absent, user |-> Absent,
            password |-> Absent]}

\* config['Server'][key] raises KeyError
Raises(config, key) == ~config.section \/ config[key] = Absent

\* the truth value of an argument: None and the empty string are false
Truthy(arg) == arg # NoneStr /\ arg # ""

NoUrl == <<>>          \* None in place of the url

NoAuth == [username |-> NoneStr, password |-> NoneStr]     \* None in place of the auth

NoServer == [status |-> "none", url |-> NoUrl, auth |-> NoAuth]

\* (None, None)
Skip == [url |-> NoUrl, auth |-> NoAuth]

TryFile_host_only(config, host, port) ==
    IF Truthy(host) /\ Raises(config, "host") THEN Skip
    ELSE IF Truthy(host) /\ host # config.host THEN Skip
    ELSE IF \E key \in {"host", "port", "user", "password"} : Raises(config, key) THEN Skip
    ELSE [url |-> <<"http://", config.host, ":", config.port, "/v2">>,
          auth |-> [username |-> config.user, password |-> config.password]]

\* lines 104-112: the body of the loop of find_credentials for one file; an
\* exception raised by a lookup is swallowed and the file is passed over
TryFile(config, host, port) ==
    IF Truthy(host) /\ Raises(config, "host") THEN Skip
    ELSE IF Truthy(host) /\ host # config.host THEN Skip
    ELSE IF Truthy(port) /\ Raises(config, "port") THEN Skip
    ELSE IF Truthy(port) /\ port # config.port THEN Skip
    ELSE IF \E key \in {"host", "port", "user", "password"} : Raises(config, key) THEN Skip
    ELSE [url |-> <<"http://", config.host, ":", config.port, "/v2">>,
          auth |-> [username |-> config.user, password |-> config.password]]

\* lines 100-113
RECURSIVE find_credentials(_, _, _)
find_credentials(files, host, port) ==
    IF files = <<>> THEN Skip
    ELSE LET found == TryFile(Head(files), host, port)
         IN  IF found # Skip THEN found ELSE find_credentials(Tail(files), host, port)

\* Server.__init__, lines 115-118
ServerBuild(host, port) ==
    /\ server_obj.status = "none"
    /\ LET found == find_credentials(credential_files, host, port)
       IN  server_obj' = IF found.url = NoUrl \/ found.auth = NoAuth
                         THEN [status |-> "raised", url |-> NoUrl, auth |-> NoAuth]
                         ELSE [status |-> "built", url |-> found.url, auth |-> found.auth]
    /\ UNCHANGED <<credential_files, server_host, server_port>>

Server(host, port) ==
    /\ ServerBuild(host, port)
    /\ UNCHANGED <<library_vars, upload_vars, run_vars, blade_vars>>

\* the credential files on disk and the arguments of the call
InitCred ==
    /\ ProjectInit(<<>>, <<>>)
    /\ wait_all = "unset"
    /\ logging = FALSE
    /\ reports = <<>>
    /\ credential_files \in SeqsUpTo(Configs, MaxFiles)
    /\ server_host \in ServerHosts \cup {NoneStr}
    /\ server_port \in ServerPorts \cup {NoneStr}
    /\ server_obj = NoServer
    /\ NoScript

NextCred == Server(server_host, server_port)

SpecCred == InitCred /\ [][NextCred]_vars

\* the file holds the four entries, and its host and port are the ones asked for
MatchingFile(config) ==
    /\ config.section
    /\ \A key \in {"host", "port", "user", "password"} : config[key] # Absent
    /\ server_host # NoneStr => config.host = server_host
    /\ server_port # NoneStr => config.port = server_port

MatchingFiles == {i \in DOMAIN credential_files : MatchingFile(credential_files[i])}

\* C12: Server(host, port) uses the credentials of the first file, in search
\* order, whose [Server] host and port equal the ones supplied (one that is
\* not supplied matches any value), passing over the files that cannot be read
\* or lack an entry; when no file matches it raises and builds no Server object.
C12_FirstMatchingFile ==
    (server_obj.status # "none") =>
        IF MatchingFiles = {}
        THEN server_obj.status = "raised"
        ELSE LET first == credential_files[CHOOSE i \in MatchingFiles :
                                               \A j \in MatchingFiles : i <= j]
             IN  /\ server_obj.status = "built"
                 /\ server_obj.url = <<"http://", first.host, ":", first.port, "/v2">>
                 /\ server_obj.auth = [username |-> first.user, password |-> first.password]

\* two files match the host and the port asked for, with different passwords,
\* and the Server object holds the first one's
C12_Witness ==
    /\ server_obj.status = "built"
    /\ server_host # NoneStr /\ server_port # NoneStr
    /\ MatchingFiles = {1, 2}
    /\ credential_files[1].password # credential_files[2].password
    /\ server_obj.auth.password = credential_files[1].password

\* ------------------------------------------------------------ upload-image.py
ImageNames == {"a.img", "b.img"}

\* a file name on the command line, as its components between slashes
Path(parts) == [none |-> FALSE, parts |-> parts]

Paths == {Path(<<"a.img">>), Path(<<"dir", "a.img">>), Path(<<"dir", "">>), Path(<<"">>)}

\* os.path.basename: what follows the last slash
basename(path) == path.parts[Len(path.parts)]

\* the paths that name a file: open() raises on a directory and on ''
RegularFiles == {p \in Paths : basename(p) # ""}

\* the truth value of args.filename: None and the empty string are false
FilenameGiven(path) == ~path.none /\ path.parts # <<"">>

WontOverwrite_never(name, listing, overwrite) == FALSE

\* line 43
WontOverwrite(name, listing, overwrite) == name \in listing /\ ~overwrite

\* exit(status), or an uncaught exception for status 1
Exit(status) ==
    /\ upload_pc' = "exited"
    /\ exit_status' = status

\* line 37: gns3_server = gns3.Server(host=args.host)
UploadServer ==
    /\ upload_pc = "server"
    /\ ServerBuild(server_host, NoneStr)
    /\ IF server_obj'.status = "raised" THEN Exit(1)
       ELSE upload_pc' = "ls" /\ UNCHANGED exit_status
    /\ UNCHANGED <<library_vars, run_vars, blade_vars, args, images, local_files, images_listed,
                   upload_requests>>

\* lines 39-41; images() raises when the server does not answer with a list
UploadLs ==
    /\ upload_pc = "ls"
    /\ IF args.ls
       THEN \E answered \in BOOLEAN : Exit(IF answered THEN 0 ELSE 1)
       ELSE upload_pc' = "check" /\ UNCHANGED exit_status
    /\ UNCHANGED <<library_vars, run_vars, blade_vars, cred_vars, args, images, local_files, images_listed,
                   upload_requests>>

\* lines 43-45
UploadCheck ==
    /\ upload_pc = "check"
    /\ IF args.filename.none
       THEN Exit(1) /\ UNCHANGED images_listed            \* basename(None): TypeError
       ELSE \E answered \in BOOLEAN :
               IF ~answered
               THEN Exit(1) /\ UNCHANGED images_listed
               ELSE /\ images_listed' = [listed |-> TRUE, names |-> images]
                    /\ IF WontOverwrite(basename(args.filename), images, args.overwrite)
                       THEN Exit(1)
                       ELSE upload_pc' = "upload" /\ UNCHANGED exit_status
    /\ UNCHANGED <<library_vars, run_vars, blade_vars, cred_vars, args, images, local_files, upload_requests>>

\* lines 68-78; the end of the script is exit status 0
Upload ==
    /\ upload_pc = "upload"
    /\ IF ~FilenameGiven(args.filename)
       THEN Exit(0) /\ UNCHANGED <<images, upload_requests>>
       ELSE IF args.filename \notin local_files
       THEN Exit(1) /\ UNCHANGED <<images, upload_requests>>      \* open() raises
       ELSE /\ upload_requests' = Append(upload_requests, basename(args.filename))
            /\ \E stored \in BOOLEAN :
                  IF stored
                  THEN images' = images \cup {basename(args.filename)} /\ Exit(0)
                  ELSE UNCHANGED images /\ Exit(1)           \* raise_for_status()
    /\ UNCHANGED <<library_vars, run_vars, blade_vars, cred_vars, args, local_files, images_listed>>

\* another client of the server uploads an image while the script runs
OtherUpload(name) ==
    /\ upload_pc \in {"server", "ls", "check", "upload"}
    /\ name \notin images
    /\ images' = images \cup {name}
    /\ UNCHANGED <<library_vars, run_vars, blade_vars, cred_vars, args, local_files, upload_pc, exit_status,
                   images_listed, upload_requests>>

\* the command lines argparse accepts: --ls and a file name exclude each other
CommandLines ==
    {[overwrite |-> o, ls |-> l, filename |-> f] :
        o \in BOOLEAN, l \in BOOLEAN, f \in Paths \cup {NoArgs.filename}}
    \ [overwrite : BOOLEAN, ls : {TRUE}, filename : Paths]

MatchingConfig == [section |-> TRUE, host |-> "gns3a", port |-> "3080", user |-> "admin",
                   password |-> "pw1"]

InitUpload ==
    /\ ProjectInit(<<>>, <<>>)
    /\ wait_all = "unset"
    /\ logging = FALSE
    /\ reports = <<>>
    /\ credential_files \in {<<>>, <<MatchingConfig>>}
    /\ server_host \in {NoneStr, "gns3a"}
    /\ server_port = NoneStr
    /\ server_obj = NoServer
    /\ args \in CommandLines
    /\ images \in SUBSET ImageNames
    /\ local_files \in {{}, RegularFiles}
    /\ upload_pc = "server"
    /\ exit_status = -1
    /\ images_listed = NotListed
    /\ upload_requests = <<>>
    /\ NoRun
    /\ NoBlade

NextUpload ==
    \/ UploadServer
    \/ UploadLs
    \/ UploadCheck
    \/ Upload
    \/ \E name \in ImageNames : OtherUpload(name)

SpecUpload == InitUpload /\ [][NextUpload]_vars

\* C13: when the basename of the file is among the images the server lists
\* and --overwrite was not given, the script sends no upload request and exits
\* with status 1; an upload request is sent only when the image was absent or
\* --overwrite was given.
C13_OverwriteProtection ==
    /\ (images_listed.listed /\ basename(args.filename) \in images_listed.names
            /\ ~args.overwrite)
          => /\ upload_requests = <<>>
             /\ upload_pc = "exited"
             /\ exit_status = 1
    /\ upload_requests # <<>>
          => /\ images_listed.listed
             /\ basename(args.filename) \notin images_listed.names \/ args.overwrite

\* the image dir/a.img is already on the server as a.img and the script,
\* started without --overwrite, has ended without uploading
C13_Witness ==
    /\ upload_pc = "exited"
    /\ exit_status = 1
    /\ images_listed.listed
    /\ args.filename = Path(<<"dir", "a.img">>)
    /\ "a.img" \in images_listed.names
    /\ ~args.overwrite
    /\ upload_requests = <<>>

\* ------------------------------------ scripts with a listener of their own
npods == 5         \* triangle-pods.py

BootScripts == {"triangle-pods", "ping-test", "ubuntu", "ubuntu-test"}

Addr(k) == "10.0.0." \o ToString(k)

\* the notifications a script can receive: the address of the sender and the
\* hostname field of the body ("None" when the body holds none)
Requests(script) ==
    CASE script = "triangle-pods" ->
            [client_address : {Addr(k) : k \in 1..(3 * npods)}, hostname : {NoneStr}]
      [] script = "ubuntu-test" ->
            [client_address : {Addr(1), Addr(2)}, hostname : {"NAT1", "NAT2", NoneStr}]
      [] OTHER ->
            [client_address : {Addr(1), Addr(2)}, hostname : {NoneStr}]

\* what the handler records: ubuntu-test.py keeps the hostname (line 220, a
\* KeyError without one), the other scripts the client address
ReportKey(script, request) ==
    IF script = "ubuntu-test" THEN request.hostname ELSE request.client_address

HandlerRaises(script, request) == script = "ubuntu-test" /\ request.hostname = NoneStr

StillWaiting_one_more(script, rep) ==
    CASE script = "triangle-pods" -> Cardinality(rep) <= 3 * npods
      [] script = "ubuntu-test"   -> "NAT1" \notin rep
      [] OTHER                    -> Cardinality(rep) = 0

\* the condition of the while loop around wait()
StillWaiting(script, rep) ==
    CASE script = "triangle-pods" -> Cardinality(rep) < 3 * npods
      [] script = "ubuntu-test"   -> "NAT1" \notin rep
      [] OTHER                    -> Cardinality(rep) = 0

\* RequestHandler.do_PUT / do_POST of the script: under the condition
\* variable, record a new key and notify
ScriptReport(request) ==
    /\ httpd_serving
    /\ IF HandlerRaises(boot_script, request) \/ ReportKey(boot_script, request) \in routers_reported
       THEN UNCHANGED <<routers_reported, main_pc>>
       ELSE /\ routers_reported' = routers_reported \cup {ReportKey(boot_script, request)}
            /\ main_pc' = IF main_pc = "wait" THEN "woken" ELSE main_pc
    /\ UNCHANGED <<library_vars, cred_vars, upload_vars, blade_vars, boot_script, httpd_serving,
                   has_waited, ping_vars>>

\* what the script does between starting the listener and its wait loop
Setup ==
    /\ boot_script \in BootScripts \ {"ping-test"}
    /\ main_pc = "setup"
    /\ main_pc' = "check"
    /\ UNCHANGED <<library_vars, cred_vars, upload_vars, blade_vars, boot_script, routers_reported,
                   httpd_serving,
                   has_waited, ping_vars>>

\* with cv: while <condition>: cv.wait() -- the condition is tested with the
\* lock held, on entry and after every wake-up, and wait() releases the lock
BootWait ==
    /\ main_pc \in {"check", "woken"}
    /\ IF StillWaiting(boot_script, routers_reported)
       THEN main_pc' = "wait" /\ has_waited' = TRUE
       ELSE main_pc' = "past" /\ UNCHANGED has_waited
    /\ UNCHANGED <<library_vars, cred_vars, upload_vars, blade_vars, boot_script, routers_reported,
                   httpd_serving,
                   ping_vars>>

\* httpd.shutdown() at the end of triangle-pods.py, ubuntu.py and ubuntu-test.py
ScriptShutdown ==
    /\ boot_script \in BootScripts \ {"ping-test"}
    /\ main_pc = "past"
    /\ main_pc' = "done"
    /\ httpd_serving' = FALSE
    /\ UNCHANGED <<library_vars, cred_vars, upload_vars, blade_vars, boot_script, routers_reported, has_waited,
                   ping_vars>>

\* ------------------------------------------------------------- ping-test.py
Registered_nothing(handlers, project_id) == handlers

\* line 137: atexit.register(remove_project, my_project['project_id'])
Registered(handlers, project_id) == Append(handlers, project_id)

NamedPingTest == {p \in projects : p.name = "ping-test"}

\* lines 117-126: POST /projects answers 409 when the name is taken, and
\* raise_for_status() raises on any error status
PingCreate ==
    /\ boot_script = "ping-test"
    /\ main_pc = "create"
    /\ \E answered \in BOOLEAN :
          IF answered /\ NamedPingTest = {}
          THEN /\ projects' = projects \cup {[project_id |-> "p1", name |-> "ping-test"]}
               /\ my_project' = "p1"
               /\ main_pc' = "register"
          ELSE /\ main_pc' = "hook"
               /\ UNCHANGED <<projects, my_project>>
    /\ UNCHANGED <<library_vars, cred_vars, upload_vars, blade_vars, boot_script, routers_reported,
                   httpd_serving,
                   has_waited, atexit_handlers, hook_ran, delete_requests>>

\* lines 131-137
PingRegister ==
    /\ boot_script = "ping-test"
    /\ main_pc = "register"
    /\ atexit_handlers' = Registered(atexit_handlers, my_project)
    /\ main_pc' = "upload"
    /\ UNCHANGED <<library_vars, cred_vars, upload_vars, blade_vars, boot_script, routers_reported,
                   httpd_serving,
                   has_waited, projects, my_project, hook_ran, delete_requests>>

\* the steps between the registration and the wait loop, in order: the
\* configuration image (lines 148-229), the nodes (235-285), the links
\* (291-319) and the start request (325-327)
PingSteps == <<"upload", "nodes", "links", "start", "check">>

\* one of those steps: it completes, or raises
PingStep ==
    /\ boot_script = "ping-test"
    /\ \E i \in 1..(Len(PingSteps) - 1) :
          /\ main_pc = PingSteps[i]
          /\ \E raised \in BOOLEAN :
                main_pc' = IF raised THEN "hook" ELSE PingSteps[i + 1]
    /\ UNCHANGED <<library_vars, cred_vars, upload_vars, blade_vars, boot_script, routers_reported,
                   httpd_serving,
                   has_waited, ping_vars>>

\* KeyboardInterrupt while the main thread is in its wait loop
PingInterrupt ==
    /\ boot_script = "ping-test"
    /\ main_pc \in {"wait", "woken"}
    /\ main_pc' = "hook"
    /\ UNCHANGED <<library_vars, cred_vars, upload_vars, blade_vars, boot_script, routers_reported,
                   httpd_serving,
                   has_waited, ping_vars>>

\* lines 355-362: the ping test completes, or raises
PingTest ==
    /\ boot_script = "ping-test"
    /\ main_pc = "past"
    /\ \E raised \in BOOLEAN : main_pc' = IF raised THEN "hook" ELSE "shutdown"
    /\ UNCHANGED <<library_vars, cred_vars, upload_vars, blade_vars, boot_script, routers_reported,
                   httpd_serving,
                   has_waited, ping_vars>>

\* line 368, then the end of the script
PingShutdown ==
    /\ boot_script = "ping-test"
    /\ main_pc = "shutdown"
    /\ httpd_serving' = FALSE
    /\ main_pc' = "atexit"
    /\ UNCHANGED <<library_vars, cred_vars, upload_vars, blade_vars, boot_script, routers_reported, has_waited,
                   ping_vars>>

\* lines 103-106: my_except_hook stops the listener, and the interpreter
\* goes on to its exit once the debugger is left
my_except_hook ==
    /\ boot_script = "ping-test"
    /\ main_pc = "hook"
    /\ httpd_serving' = FALSE
    /\ hook_ran' = TRUE
    /\ main_pc' = "atexit"
    /\ UNCHANGED <<library_vars, cred_vars, upload_vars, blade_vars, boot_script, routers_reported, has_waited,
                   projects, my_project, atexit_handlers, delete_requests>>

\* lines 131-134, run by atexit for each registration: the server deletes the
\* project (204) or answers with an error
remove_project ==
    /\ boot_script = "ping-test"
    /\ main_pc = "atexit"
    /\ atexit_handlers # <<>>
    /\ LET project_id == Head(atexit_handlers)
       IN  \E status \in {204, 500} :
             /\ delete_requests' = delete_requests
                                      \cup {[project_id |-> project_id, status |-> status]}
             /\ projects' = IF status = 204
                             THEN {p \in projects : p.project_id # project_id}
                             ELSE projects
    /\ atexit_handlers' = Tail(atexit_handlers)
    /\ UNCHANGED <<library_vars, cred_vars, upload_vars, blade_vars, boot_vars, my_project, hook_ran>>

\* the process exits once the exit handlers have run
PingExit ==
    /\ boot_script = "ping-test"
    /\ main_pc = "atexit"
    /\ atexit_handlers = <<>>
    /\ main_pc' = "exited"
    /\ UNCHANGED <<library_vars, cred_vars, upload_vars, blade_vars, boot_script, routers_reported,
                   httpd_serving,
                   has_waited, ping_vars>>

\* a script has started its listener thread; ping-test.py is about to create
\* its project on a server that may hold a project of that name already
InitRun ==
    /\ ProjectInit(<<>>, <<>>)
    /\ wait_all = "unset"
    /\ logging = FALSE
    /\ reports = <<>>
    /\ NoServerCall
    /\ NoUpload
    /\ NoBlade
    /\ boot_script \in BootScripts
    /\ main_pc = IF boot_script = "ping-test" THEN "create" ELSE "setup"
    /\ routers_reported = {}
    /\ httpd_serving = TRUE
    /\ has_waited = FALSE
    /\ projects \in {{}, {[project_id |-> "p0", name |-> "lab"]},
                      {[project_id |-> "p0", name |-> "ping-test"]}}
    /\ my_project = NoneStr
    /\ atexit_handlers = <<>>
    /\ hook_ran = FALSE
    /\ delete_requests = {}

NextRun ==
    \/ \E request \in Requests(boot_script) : ScriptReport(request)
    \/ Setup
    \/ BootWait
    \/ ScriptShutdown
    \/ PingCreate
    \/ PingRegister
    \/ PingStep
    \/ PingInterrupt
    \/ PingTest
    \/ PingShutdown
    \/ my_except_hook
    \/ remove_project
    \/ PingExit

SpecRun == InitRun /\ [][NextRun]_vars

\* C14: once ping-test.py has created its project, an execution that ends,
\* after the ping test or after an uncaught exception on a later step, has
\* sent the DELETE for that project before the process exits, and the project
\* is gone from the server that honoured it.
C14_ProjectRemoved ==
    (boot_script = "ping-test" /\ main_pc = "exited" /\ my_project # NoneStr) =>
        /\ \E r \in delete_requests : r.project_id = my_project
        /\ \A r \in delete_requests :
              (r.project_id = my_project /\ r.status = 204) =>
                  ~\E p \in projects : p.project_id = my_project

\* the script was interrupted in its wait loop, before any router reported,
\* and has exited with its project deleted
C14_Witness ==
    /\ boot_script = "ping-test"
    /\ main_pc = "exited"
    /\ has_waited
    /\ routers_reported = {}
    /\ my_project = "p1"
    /\ [project_id |-> "p1", status |-> 204] \in delete_requests
    /\ ~\E p \in projects : p.project_id = "p1"

\* the reports the script waits for have been recorded
RequiredRecorded ==
    CASE boot_script = "triangle-pods" -> Cardinality(routers_reported) >= 3 * npods
      [] boot_script = "ping-test"   -> routers_reported # {}
      [] boot_script = "ubuntu"      -> routers_reported # {}
      [] boot_script = "ubuntu-test" -> "NAT1" \in routers_reported
      [] OTHER -> FALSE

PastLoop == main_pc \in {"past", "shutdown", "done"}

\* C16: the main thread of triangle-pods.py, ping-test.py, ubuntu.py and
\* ubuntu-test.py is past its wait loop only if the reports it requires have
\* been recorded, and it is never blocked in wait() once they are recorded,
\* whatever the interleaving with the handler thread.
C16_BootWait ==
    /\ PastLoop => RequiredRecorded
    /\ ~(main_pc = "wait" /\ RequiredRecorded)

\* every router of triangle-pods.py reported before the main thread reached
\* its wait loop, and the main thread went past the loop without waiting
C16_Witness ==
    /\ boot_script = "triangle-pods"
    /\ main_pc = "past"
    /\ ~has_waited
    /\ Cardinality(routers_reported) = 3 * npods

\* ------------------------------------------------------- UCS/start-blade.py
\* the service profiles of the local naming scheme the model lets exist
ProfileDns == {"org-root/ls-iSCSI07", "org-root/ls-iSCSI03"}

OperStates == {"ok", "power-off", "unassociated"}

PowerStates == {"up", "down", "admin-up", "soft-shut-down"}

\* a service profile and its power object, as the managed objects of the UCS
\* manager: the profile carries oper_state, the power object carries state
Profile(dn, oper_state) == [dn |-> dn, oper_state |-> oper_state, state |-> "None"]

Power(dn, state) == [dn |-> dn \o "/power", oper_state |-> "None", state |-> state]

\* the managed objects of a UCS manager that holds the profiles of ps, a
\* function from their dns to <<oper_state, power state>>
UcsOf(ps) ==
    [dn \in DOMAIN ps \cup {d \o "/power" : d \in DOMAIN ps} |->
        IF dn \in DOMAIN ps
        THEN Profile(dn, ps[dn][1])
        ELSE LET d == CHOOSE d \in DOMAIN ps : d \o "/power" = dn
             IN  Power(d, ps[d][2])]

\* handle.query_dn(dn): the managed object, or None
query_dn(objects, dn) == IF dn \in DOMAIN objects THEN objects[dn] ELSE NoMo

BladeRunning_never(mo) == FALSE

\* line 46
BladeRunning(mo) == mo.oper_state = "ok"

\* line 29: handle.login() succeeds, or raises
BladeLogin ==
    /\ blade_pc = "login"
    /\ \E ok \in BOOLEAN : blade_pc' = IF ok THEN "dn" ELSE "raised"
    /\ UNCHANGED <<library_vars, cred_vars, upload_vars, run_vars, ucs, ucs_before, argv, dn1,
                   mo1, mo2, uncommitted, queries, set_mos, commits>>

\* lines 35-38; argv[1] is the script name
BladeDn ==
    /\ blade_pc = "dn"
    /\ dn1' = IF Len(argv) = 2 THEN "org-root/ls-iSCSI0" \o argv[2] ELSE "org-root/ls-iSCSI07"
    /\ blade_pc' = "query"
    /\ UNCHANGED <<library_vars, cred_vars, upload_vars, run_vars, ucs, ucs_before, argv, mo1,
                   mo2, uncommitted, queries, set_mos, commits>>

\* lines 40-42: the print raises AttributeError when the profile does not exist
BladeQuery ==
    /\ blade_pc = "query"
    /\ mo1' = query_dn(ucs, dn1)
    /\ queries' = Append(queries, dn1)
    /\ blade_pc' = IF mo1' = NoMo THEN "raised" ELSE "test"
    /\ UNCHANGED <<library_vars, cred_vars, upload_vars, run_vars, ucs, ucs_before, argv, dn1,
                   mo2, uncommitted, set_mos, commits>>

\* lines 46-56
BladeTest ==
    /\ blade_pc = "test"
    /\ blade_pc' = IF BladeRunning(mo1) THEN "done" ELSE "power"
    /\ UNCHANGED <<library_vars, cred_vars, upload_vars, run_vars, ucs, ucs_before, argv, dn1,
                   mo1, mo2, uncommitted, queries, set_mos, commits>>

\* lines 56-58
BladePower ==
    /\ blade_pc = "power"
    /\ mo2' = query_dn(ucs, dn1 \o "/power")
    /\ queries' = Append(queries, dn1 \o "/power")
    /\ blade_pc' = "assign"
    /\ UNCHANGED <<library_vars, cred_vars, upload_vars, run_vars, ucs, ucs_before, argv, dn1,
                   mo1, uncommitted, set_mos, commits>>

\* lines 60-62: the assignment raises AttributeError on None
BladeAssign ==
    /\ blade_pc = "assign"
    /\ IF mo2 = NoMo
       THEN blade_pc' = "raised" /\ UNCHANGED mo2
       ELSE blade_pc' = "set_mo" /\ mo2' = [mo2 EXCEPT !.state = "admin-up"]
    /\ UNCHANGED <<library_vars, cred_vars, upload_vars, run_vars, ucs, ucs_before, argv, dn1,
                   mo1, uncommitted, queries, set_mos, commits>>

\* line 64
set_mo ==
    /\ blade_pc = "set_mo"
    /\ uncommitted' = Append(uncommitted, mo2)
    /\ set_mos' = Append(set_mos, mo2)
    /\ blade_pc' = "commit"
    /\ UNCHANGED <<library_vars, cred_vars, upload_vars, run_vars, ucs, ucs_before, argv, dn1,
                   mo1, mo2, queries, commits>>

\* line 66: the UCS manager applies the uncommitted objects, or the call raises
commit ==
    /\ blade_pc = "commit"
    /\ commits' = commits + 1
    /\ \E applied \in BOOLEAN :
          IF applied
          THEN /\ ucs' = [dn \in DOMAIN ucs |->
                            IF \E i \in DOMAIN uncommitted : uncommitted[i].dn = dn
                            THEN uncommitted[CHOOSE i \in DOMAIN uncommitted :
                                                 uncommitted[i].dn = dn]
                            ELSE ucs[dn]]
               /\ uncommitted' = <<>>
               /\ blade_pc' = "done"
          ELSE /\ blade_pc' = "raised"
               /\ UNCHANGED <<ucs, uncommitted>>
    /\ UNCHANGED <<library_vars, cred_vars, upload_vars, run_vars, ucs_before, argv, dn1, mo1,
                   mo2, queries, set_mos>>

\* the command lines: no argument, a blade number, or too many arguments
CommandLinesBlade ==
    {<<"start-blade.py">>, <<"start-blade.py", "3">>, <<"start-blade.py", "7">>,
     <<"start-blade.py", "9">>, <<"start-blade.py", "3", "7">>}

InitBlade ==
    /\ ProjectInit(<<>>, <<>>)
    /\ wait_all = "unset"
    /\ logging = FALSE
    /\ reports = <<>>
    /\ NoServerCall
    /\ NoUpload
    /\ NoRun
    /\ \E ps \in [ProfileDns -> OperStates \X PowerStates] : ucs = UcsOf(ps)
    /\ ucs_before = ucs
    /\ argv \in CommandLinesBlade
    /\ blade_pc = "login"
    /\ dn1 = "None"
    /\ mo1 = NoMo
    /\ mo2 = NoMo
    /\ uncommitted = <<>>
    /\ queries = <<>>
    /\ set_mos = <<>>
    /\ commits = 0

NextBlade ==
    \/ BladeLogin
    \/ BladeDn
    \/ BladeQuery
    \/ BladeTest
    \/ BladePower
    \/ BladeAssign
    \/ set_mo
    \/ commit

SpecBlade == InitBlade /\ [][NextBlade]_vars

\* the script has tested the oper_state of the service profile it queried
Tested == blade_pc \in {"power", "assign", "set_mo", "commit", "done"}

\* C15: the first query is for the service profile; when its oper_state is
\* 'ok' the script calls neither set_mo nor commit and the UCS manager's
\* objects are unchanged; otherwise it hands the profile's power object, with
\* state 'admin-up', to set_mo and commits exactly once.
C15_StartBlade ==
    /\ (set_mos # <<>> \/ commits > 0) => (queries # <<>> /\ queries[1] = dn1)
    /\ Len(set_mos) <= 1 /\ commits <= 1
    /\ (Tested /\ mo1.oper_state = "ok") =>
          /\ blade_pc = "done"
          /\ set_mos = <<>>
          /\ commits = 0
          /\ ucs = ucs_before
    /\ (blade_pc = "done" /\ mo1.oper_state # "ok") =>
          /\ set_mos = <<Power(dn1, "admin-up")>>
          /\ commits = 1
          /\ ucs = [ucs_before EXCEPT ![dn1 \o "/power"] = Power(dn1, "admin-up")]

\* blade 3 was powered down: its power object is now 'admin-up' after one
\* set_mo and one commit
C15_Witness ==
    /\ blade_pc = "done"
    /\ dn1 = "org-root/ls-iSCSI03"
    /\ mo1.oper_state = "power-off"
    /\ ucs_before[dn1 \o "/power"].state = "down"
    /\ ucs[dn1 \o "/power"].state = "admin-up"
    /\ Len(set_mos) = 1
    /\ commits = 1

\* ------------------------------------------------------ start-up properties
NameOfListed(nodeid) == names_by_node_id(existing_nodes)[nodeid]

Reported(nodeid) ==
    \E h \in DOMAIN instances_reported :
        /\ h \in DOMAIN node_ids_by_name(existing_nodes)
        /\ node_ids_by_name(existing_nodes)[h] = nodeid

Returned == pc \in {"shutdown", "done"}

\* C1: a start request is sent for a node only when each of its declared
\* dependencies was listed as 'started' at line 513 or has reported to the
\* listener.
C1_DependencyOrder ==
    \A n \in start_requests :
        \A i \in DOMAIN Get(node_dependencies, n) :
            LET d == node_dependencies[n][i].node_id
            IN d \in StartedAtListing(existing_nodes) \/ Reported(d)

\* a node was started in the wait loop after a dependency, stopped at the
\* listing, reported
C1_Witness ==
    \E n \in start_requests :
        \E i \in DOMAIN Get(node_dependencies, n) :
            LET d == node_dependencies[n][i].node_id
            IN d \notin StartedAtListing(existing_nodes) /\ Reported(d) /\ d \in start_requests

\* C2: once every node on the wait list has delivered its notification the
\* main thread is not left blocked in wait(); it goes on to return.
C2_CompletionSignalled ==
    ~(pc = "wait" /\ \A n \in waitlist : NameOfListed(n) \in DOMAIN instances_reported)

\* C3: start_nodes leaves its wait loop (and calls httpd.shutdown()) only
\* when every node that has been on the wait list has reported under its name.
C3_NoTimeout ==
    Returned => \A n \in waited : NameOfListed(n) \in DOMAIN instances_reported

\* the main thread has been woken by a report, and is blocked again because a
\* node on the wait list has not reported
C3_Witness ==
    /\ pc = "wait"
    /\ running_nodeids # StartedAtListing(existing_nodes)
    /\ \E n \in waitlist : NameOfListed(n) \notin DOMAIN instances_reported

\* C4: called with wait_for_everything=True on a listener without earlier
\* reports, start_nodes returns only when every node it sent a start request
\* for has reported.
C4_WaitForEverything ==
    (Returned /\ call.wait_for_everything /\ pre_reported = {})
        => \A n \in start_requests : NameOfListed(n) \in DOMAIN instances_reported

\* such a call has returned after starting a node nothing depends on
C4_Witness ==
    /\ pc = "done"
    /\ call.wait_for_everything
    /\ pre_reported = {}
    /\ \E n \in start_requests : n \notin all_dependent_nodes(node_dependencies)

\* C5: called without wait_for_everything=True on a project whose wait_all is
\* false, start_nodes waits only for nodes some other node depends on.
C5_WaitsOnlyForDependedOn ==
    (call.active /\ ~call.wait_for_everything /\ wait_all = "false")
        => waited \subseteq all_dependent_nodes(node_dependencies)

\* ------------------------------------------------------------------- links
\* port2=None
None == -1

NoPort == [adapter_number |-> -1, port_number |-> -1]

\* one entry of link['nodes']
Endpoint(node_id, port) ==
    [node_id |-> node_id, adapter_number |-> port.adapter_number,
     port_number |-> port.port_number]

\* variant: only the first endpoint of each link is looked at
ports_in_use_first_endpoint(ls, node_id) ==
    {<<ls[i].nodes[1].adapter_number, ls[i].nodes[1].port_number>> :
        i \in {j \in DOMAIN ls : ls[j].nodes[1].node_id = node_id}}

\* line 934: the (adapter_number, port_number) pairs the links use on the node
ports_in_use(ls, node_id) ==
    UNION {{<<ls[i].nodes[e].adapter_number, ls[i].nodes[e].port_number>> :
               e \in {f \in DOMAIN ls[i].nodes : ls[i].nodes[f].node_id = node_id}} :
           i \in DOMAIN ls}

\* line 935: the ports of node2 not in use, in the order of node2['ports']
available_ports(ls, node2) ==
    SelectSeq(node2.ports,
              LAMBDA port : <<port.adapter_number, port.port_number>>
                                \notin ports_in_use(ls, node2.node_id))

\* line 933: 'if not port2' holds for None and for 0
FirstAvailableWanted(port2) == port2 = None \/ port2 = 0

\* variant: only links whose first endpoint is node1 are recognised
LinkJoins_forward(l, node1, port1, node2) ==
    /\ l.nodes[1].node_id = node1.node_id
    /\ l.nodes[1].port_number = node1.ports[port1 + 1].port_number
    /\ l.nodes[1].adapter_number = node1.ports[port1 + 1].adapter_number
    /\ l.nodes[2].node_id = node2.node_id

\* lines 986-995: the link joins node1's port port1 to node2, in either order
LinkJoins(l, node1, port1, node2) ==
    \/ /\ l.nodes[1].node_id = node1.node_id
       /\ l.nodes[1].port_number = node1.ports[port1 + 1].port_number
       /\ l.nodes[1].adapter_number = node1.ports[port1 + 1].adapter_number
       /\ l.nodes[2].node_id = node2.node_id
    \/ /\ l.nodes[2].node_id = node1.node_id
       /\ l.nodes[2].port_number = node1.ports[port1 + 1].port_number
       /\ l.nodes[2].adapter_number = node1.ports[port1 + 1].adapter_number
       /\ l.nodes[1].node_id = node2.node_id

\* the server refuses (409) a link on a port that already carries one, or
\* from a port to itself; raise_for_status() of line 952 then raises
ServerAcceptsLink(ls, link_obj) ==
    /\ link_obj.nodes[1] # link_obj.nodes[2]
    /\ \A e \in DOMAIN link_obj.nodes :
          \A i \in DOMAIN ls : \A f \in DOMAIN ls[i].nodes :
             ls[i].nodes[f] # link_obj.nodes[e]

LinkOp(op, node1, port1, node2, port2, joined, requested, raised, endpoint, repeated) ==
    [op |-> op, node1 |-> node1.node_id, port1 |-> port1, node2 |-> node2.node_id,
     port2 |-> port2, links_before |-> links, joined |-> joined, requested |-> requested,
     raised |-> raised, endpoint |-> endpoint, repeated |-> repeated]

\* Project.create_link(node1, port1, node2, port2), lines 933-952, called by
\* the method named op
create_link_from(op, node1, port1, node2, port2, repeated) ==
    LET available == available_ports(links, node2)
        stop_iteration == FirstAvailableWanted(port2) /\ available = <<>>
        next_available_port == IF FirstAvailableWanted(port2)
                               THEN available[1] ELSE node2.ports[port2 + 1]
        link_obj == [nodes |-> <<Endpoint(node1.node_id, node1.ports[port1 + 1]),
                                 Endpoint(node2.node_id, next_available_port)>>]
    IN IF stop_iteration
       THEN /\ last_op' = LinkOp(op, node1, port1, node2, port2, FALSE, FALSE, TRUE,
                                 NoPort, repeated)
            /\ UNCHANGED links
       ELSE IF ServerAcceptsLink(links, link_obj)
       THEN /\ Len(links) < MaxLinks
            /\ last_op' = LinkOp(op, node1, port1, node2, port2, FALSE, TRUE, FALSE,
                                 next_available_port, repeated)
            /\ links' = Append(links, link_obj)
       ELSE /\ last_op' = LinkOp(op, node1, port1, node2, port2, FALSE, TRUE, TRUE,
                                 next_available_port, repeated)
            /\ UNCHANGED links

create_link(node1, port1, node2, port2) ==
    /\ pc = "idle"
    /\ create_link_from("create_link", node1, port1, node2, port2, FALSE)
    /\ UNCHANGED <<nodes, allocated, project_vars, listener_vars, serving, thread_vars,
                   call_vars, created, other_vars>>

\* Project.link(node1, port1, node2, port2), lines 984-996
link(node1, port1, node2, port2) ==
    /\ pc = "idle"
    /\ LET repeated == /\ last_op.op = "link"
                       /\ ~last_op.raised
                       /\ last_op.node1 = node1.node_id /\ last_op.port1 = port1
                       /\ last_op.node2 = node2.node_id /\ last_op.port2 = port2
       IN IF \E i \in DOMAIN links : LinkJoins(links[i], node1, port1, node2)
          THEN /\ last_op' = LinkOp("link", node1, port1, node2, port2, TRUE, FALSE, FALSE,
                                    NoPort, repeated)
               /\ UNCHANGED links
          ELSE create_link_from("link", node1, port1, node2, port2, repeated)
    /\ UNCHANGED <<nodes, allocated, project_vars, listener_vars, serving, thread_vars,
                   call_vars, created, other_vars>>

\* a project with a qemu node and a switch, and no links yet
InitLink ==
    /\ ProjectInit(<<NodeDict(NodeIds[1], HostNames[1], "qemu", "stopped"),
                     NodeDict(NodeIds[2], "InternetSwitch", "ethernet_switch", "started")>>,
                   <<>>)
    /\ wait_all = "false"
    /\ LibraryOnly

PortIndexes(node) == 0..(Len(node.ports) - 1)

NextLink ==
    \/ \E node1 \in Range(nodes), node2 \in Range(nodes) :
          \E port1 \in PortIndexes(node1), port2 \in {None} \cup PortIndexes(node2) :
             link(node1, port1, node2, port2)
    \/ \E node1 \in Range(nodes), node2 \in Range(nodes) :
          \E port1 \in PortIndexes(node1), port2 \in {None} \cup PortIndexes(node2) :
             create_link(node1, port1, node2, port2)

SpecLink == InitLink /\ [][NextLink]_vars

IsLinkOp == last_op.op \in {"link", "create_link"}

\* the first port of node2, in the order of node2['ports'], that no link
\* uses on node2 (NoPort when every port is used)
FirstUnusedPort(ls, node2) ==
    LET unused == {i \in DOMAIN node2.ports :
                     \A j \in DOMAIN ls : \A e \in DOMAIN ls[j].nodes :
                        ~(/\ ls[j].nodes[e].node_id = node2.node_id
                          /\ ls[j].nodes[e].adapter_number = node2.ports[i].adapter_number
                          /\ ls[j].nodes[e].port_number = node2.ports[i].port_number)}
    IN IF unused = {} THEN NoPort
       ELSE node2.ports[CHOOSE i \in unused : \A k \in unused : i <= k]

NodeOfId(id) == nodes_by_node_id(nodes)[id]

\* C8: link() sends a create-link request only if no link on the server joins
\* node1's port to node2 in either order, and a repeated call with the same
\* arguments sends none.
C8_LinkIdempotent ==
    (last_op.op = "link") =>
        /\ last_op.requested =>
              ~\E i \in DOMAIN last_op.links_before :
                  LET l == last_op.links_before[i]
                      p == NodeOfId(last_op.node1).ports[last_op.port1 + 1]
                  IN \E a \in 1..2 :
                        /\ l.nodes[a].node_id = last_op.node1
                        /\ l.nodes[a].adapter_number = p.adapter_number
                        /\ l.nodes[a].port_number = p.port_number
                        /\ l.nodes[3 - a].node_id = last_op.node2
        /\ last_op.repeated => ~last_op.requested

\* link() was called a second time with the same arguments and found the
\* link, which the server holds with node1 as its second endpoint
C8_Witness ==
    /\ last_op.op = "link"
    /\ last_op.repeated
    /\ last_op.joined
    /\ last_op.node1 # last_op.node2
    /\ \A i \in DOMAIN links : links[i].nodes[1].node_id = last_op.node2
    /\ \E i \in DOMAIN links : links[i].nodes[2].node_id = last_op.node1

\* C9: with port2 not given, the endpoint requested on node2 is the first
\* port of node2['ports'] that no link on the server uses on node2.
C9_FirstAvailablePort ==
    (IsLinkOp /\ last_op.port2 = None /\ last_op.requested) =>
        /\ last_op.endpoint = FirstUnusedPort(last_op.links_before, NodeOfId(last_op.node2))
        /\ last_op.endpoint # NoPort

\* a link was created on the second port of node2 because its first port was
\* in use as the second endpoint of a link
C9_Witness ==
    /\ IsLinkOp /\ last_op.port2 = None /\ last_op.requested /\ ~last_op.raised
    /\ last_op.endpoint = NodeOfId(last_op.node2).ports[2]
    /\ \E i \in DOMAIN last_op.links_before :
          Endpoint(last_op.node2, NodeOfId(last_op.node2).ports[1])
              = last_op.links_before[i].nodes[2]

\* C10: with port2 given, the endpoint requested on node2 is node2['ports'][port2].
C10_GivenPortUsed ==
    (IsLinkOp /\ last_op.port2 # None /\ last_op.requested) =>
        last_op.endpoint = NodeOfId(last_op.node2).ports[last_op.port2 + 1]

\* ------------------------------------------------------------ declarations
NameSuffixes == <<"1", "2", "3", "4", "5", "6">>

NamesOf(ns) == {ns[i].name : i \in DOMAIN ns}

\* the server gives a node the requested name, or that name with a number
\* appended when it is taken
ServerName(ns, name) ==
    IF name \notin NamesOf(ns) THEN name
    ELSE name \o NameSuffixes[CHOOSE k \in DOMAIN NameSuffixes :
                                 /\ name \o NameSuffixes[k] \notin NamesOf(ns)
                                 /\ \A j \in 1..(k-1) : name \o NameSuffixes[j] \in NamesOf(ns)]

\* result.json() of the POST to /nodes: built-in nodes (cloud, switch) are
\* always 'started', a qemu node is created 'stopped'
NewNode(name, node_type) ==
    NodeDict(NodeIds[allocated + 1], ServerName(nodes, name), node_type,
             IF node_type = "qemu" THEN "stopped" ELSE "started")

ServerCreate(name, node_type) ==
    /\ allocated < MaxNodes
    /\ nodes' = Append(nodes, NewNode(name, node_type))
    /\ allocated' = allocated + 1
    /\ created' = created \cup {NodeIds[allocated + 1]}
    /\ UNCHANGED links

DeclOp(op, name, requested) ==
    [op |-> op, name |-> name, requested |-> requested, on_server |-> name \in NamesOf(nodes)]

\* 'if not self.cached_nodes: self.nodes()' of lines 959-960, 969-970, 977-978
CacheForLookup == IF cached_nodes = <<>> THEN nodes ELSE cached_nodes

\* lines 961-963: a node of that name is in the cached list
Known(cache, name) == \E i \in DOMAIN cache : cache[i].name = name

\* Project.create_ubuntu_node(user_data, ...), lines 850-861
create_ubuntu_node(user_data) ==
    /\ ServerCreate(user_data.hostname, "qemu")
    /\ cached_nodes' = nodes'

\* Project.create_cloud(name, interface), lines 896-900
create_cloud(name) == ServerCreate(name, "cloud")

\* Project.create_switch(name), lines 921-925
create_switch(name) == ServerCreate(name, "ethernet_switch")

\* Project.create_qemu_node(name, image, images, ...), lines 734-745
create_qemu_node(name) ==
    /\ pc = "idle"
    /\ ServerCreate(name, "qemu")
    /\ cached_nodes' = nodes'
    /\ last_op' = DeclOp("create_qemu_node", name, TRUE)
    /\ UNCHANGED <<nodes_waiting_to_start, node_dependencies, wait_all, telnet_procs,
                   listener_vars, serving, thread_vars, call_vars, other_vars>>

\* Project.ubuntu_node(user_data, ...), lines 957-966
ubuntu_node(user_data) ==
    /\ pc = "idle"
    /\ LET name == user_data.hostname
       IN IF Known(CacheForLookup, name)
          THEN /\ cached_nodes' = CacheForLookup
               /\ last_op' = DeclOp("ubuntu_node", name, FALSE)
               /\ UNCHANGED <<server_vars, nodes_waiting_to_start, created>>
          ELSE /\ create_ubuntu_node(user_data)
               /\ nodes_waiting_to_start' =
                     Append(nodes_waiting_to_start, NewNode(name, "qemu"))
               /\ last_op' = DeclOp("ubuntu_node", name, TRUE)
    /\ UNCHANGED <<node_dependencies, wait_all, telnet_procs, listener_vars, serving,
                   thread_vars, call_vars, other_vars>>

\* Project.cloud(name, ...), lines 968-974
cloud(name) ==
    /\ pc = "idle"
    /\ cached_nodes' = CacheForLookup
    /\ IF Known(CacheForLookup, name)
       THEN /\ last_op' = DeclOp("cloud", name, FALSE)
            /\ UNCHANGED <<server_vars, created>>
       ELSE /\ create_cloud(name)
            /\ last_op' = DeclOp("cloud", name, TRUE)
    /\ UNCHANGED <<nodes_waiting_to_start, node_dependencies, wait_all, telnet_procs,
                   listener_vars, serving, thread_vars, call_vars, other_vars>>

\* Project.switch(name, ...), lines 976-982
switch(name) ==
    /\ pc = "idle"
    /\ cached_nodes' = CacheForLookup
    /\ IF Known(CacheForLookup, name)
       THEN /\ last_op' = DeclOp("switch", name, FALSE)
            /\ UNCHANGED <<server_vars, created>>
       ELSE /\ create_switch(name)
            /\ last_op' = DeclOp("switch", name, TRUE)
    /\ UNCHANGED <<nodes_waiting_to_start, node_dependencies, wait_all, telnet_procs,
                   listener_vars, serving, thread_vars, call_vars, other_vars>>

DeclNames == {HostNames[i] : i \in 1..MaxNames}

\* a Project object on a newly created, empty server project, opened by
\* open_project_with_standard_options without --wait-all
InitDecl ==
    /\ ProjectInit(<<>>, <<>>)
    /\ wait_all = "false"
    /\ LibraryOnly

NextDecl ==
    \/ \E name \in DeclNames : ubuntu_node([hostname |-> name])
    \/ \E name \in DeclNames : cloud(name)
    \/ \E name \in DeclNames : switch(name)
    \/ \E name \in DeclNames : create_qemu_node(name)
    \/ \E nodeid \in NodeIdsOf(nodes) \cup NamesOf(nodes) : delete(nodeid)
    \/ \E wfe \in BOOLEAN, q \in BOOLEAN : start_nodes(<<>>, wfe, q)
    \/ ScanStep
    \/ WaitEnter
    \/ WaitWake
    \/ WaitNext
    \/ Shutdown
    \/ \E h \in DeclNames : do_POST("10.0.0.1", [hostname |-> <<h>>])
    \/ \E h \in DeclNames : do_PUT("10.0.0.1", <<"", h>>, [hostname |-> <<h>>])

SpecDecl == InitDecl /\ [][NextDecl]_vars

\* C6: start_nodes() with no node_list sends a start request to every node
\* created through this Project object that is not started yet.
C6_DefaultStartsAllCreated ==
    (call.active /\ call.node_list = <<>> /\ Returned) =>
        \A n \in created :
            (n \in NodeIdsOf(existing_nodes) /\ n \notin StartedAtListing(existing_nodes))
                => n \in start_requests

\* C7: a declaration method sends a create request only when no node of the
\* declared name exists on the server.
C7_CreateOnlyMissing ==
    (last_op.op \in {"ubuntu_node", "cloud", "switch"} /\ last_op.requested)
        => ~last_op.on_server

====
